---------------------------- MODULE Spec2Model ----------------------------
(***************************************************************************)
(* A model of molsturm's System class (python/molsturm/System.py), of the  *)
(* electron distribution function it uses, and of the element table of     *)
(* gint (python/gint/element.py).                                          *)
(*                                                                         *)
(* Python values of more than one type are tagged records:                 *)
(*   None        [kind |-> "none"]                                         *)
(*   an int      [kind |-> "int", val |-> i]                               *)
(*   a str       [kind |-> "str", val |-> s]                               *)
(*   a list      [kind |-> "list", val |-> <<...>>]                        *)
(*   other       [kind |-> "other"]   (a float, a dict, ...)               *)
(* The outcome of a call is Return(value) or Raise(type, msg), where type  *)
(* is the name of the Python exception class.                              *)
(***************************************************************************)
EXTENDS Integers, Sequences, FiniteSets, TLC

VARIABLES
    pc,            \* "new": no System yet; "live": __init__ returned; "failed": it raised
    system,        \* the fields of the System object
    last,          \* the last call made on the System: arguments and outcome
    dist,          \* a call to distribute_electrons: arguments and outcome
    look           \* a call into the element table: argument and outcome

vars == <<pc, system, last, dist, look>>

---------------------------------------------------------------------------
(* Bounds of the model *)

MaxAtoms == 3
MaxElectrons == 5
MaxNegative == 2
MaxMultiplicity == 5
MaxCharge == 4
LookupSlack == 2

ElectronCounts == (0 - MaxNegative) .. MaxElectrons
Multiplicities == (0 - MaxNegative) .. MaxMultiplicity

---------------------------------------------------------------------------
(* Python values and outcomes *)

PyNone == [kind |-> "none"]
PyInt(i) == [kind |-> "int", val |-> i]
PyStr(s) == [kind |-> "str", val |-> s]
PyList(s) == [kind |-> "list", val |-> s]
PyOther == [kind |-> "other"]

Return(v) == [ok |-> TRUE, type |-> "", msg |-> "", value |-> v]
Raise(type, msg) == [ok |-> FALSE, type |-> type, msg |-> msg, value |-> <<>>]

NotCalled == [ok |-> FALSE, type |-> "", msg |-> "not called", value |-> <<>>]

\* Python's == between two tagged values: values of different types differ.
PyEq(a, b) == a.kind = b.kind /\ a.val = b.val

RECURSIVE SeqSum(_)
SeqSum(s) == IF s = <<>> THEN 0 ELSE Head(s) + SeqSum(Tail(s))

RECURSIVE SeqsUpTo(_, _)
SeqsUpTo(S, n) ==
    IF n = 0 THEN {<<>>}
    ELSE LET shorter == SeqsUpTo(S, n - 1)
         IN shorter \cup {Append(s, x) : s \in {t \in shorter : Len(t) = n - 1}, x \in S}

---------------------------------------------------------------------------
(* gint/element.py *)

Element(atom_number, symbol) == [atom_number |-> atom_number, symbol |-> symbol]

elems ==
    << Element(1, "H"),   Element(2, "He"),
       Element(3, "Li"),  Element(4, "Be"),  Element(5, "B"),   Element(6, "C"),
       Element(7, "N"),   Element(8, "O"),   Element(9, "F"),   Element(10, "Ne"),
       Element(11, "Na"), Element(12, "Mg"), Element(13, "Al"), Element(14, "Si"),
       Element(15, "P"),  Element(16, "S"),  Element(17, "Cl"), Element(18, "Ar"),
       Element(19, "K"),  Element(20, "Ca") >>

MsgIndexError == "list index out of range"

\* [e for e in elems if <test>][0]
FirstMatch(matches) ==
    IF matches = <<>> THEN Raise("IndexError", MsgIndexError)
    ELSE Return(matches[1])

MatchAtomNumber(num) ==
    LET Test(e) == PyEq(PyInt(e.atom_number), num) IN SelectSeq(elems, Test)

MatchSymbol(atom) ==
    LET Test(e) == PyEq(PyStr(e.symbol), atom) IN SelectSeq(elems, Test)

by_atomic_number(num) == FirstMatch(MatchAtomNumber(num))

find(atom) ==
    LET r == IF atom.kind = "int" THEN FirstMatch(MatchAtomNumber(atom))
             ELSE FirstMatch(MatchSymbol(atom))
    IN IF ~r.ok /\ r.type = "IndexError" THEN Raise("KeyError", ToString(atom.val))
       ELSE r

---------------------------------------------------------------------------
(* molsturm/System.py: distribute_electrons *)

MsgMultiplicity == "The multiplicity needs to be a positive number."
MsgElectronCount == "The electron count needs to be zero or larger."
MsgParity == "Only a system with an even number of electrons can have an odd multiplicity and vice versa."
MsgRange == "A system with n electrons cannot have a multiplicity larger than n + 1."
MsgAssert == "assert"

MultiplicityCheckFails(multiplicity) == multiplicity <= 0

ElectronCheckFails(n_electrons) == n_electrons < 0

\* the parity of the multiplicity taken for that of the spin
ParityCheckFails_OfMultiplicity(n_electrons, spin_twice) ==
    (spin_twice + 1) % 2 # n_electrons % 2

ParityCheckFails(n_electrons, spin_twice) == spin_twice % 2 # n_electrons % 2

RangeCheckFails(n_electrons, spin_twice) == spin_twice > n_electrons

\* the spin not taken out before halving
SplitAlpha_NoSubtract(n_electrons, spin_twice) ==
    (n_electrons \div 2) + spin_twice

SplitAlpha(n_electrons, spin_twice) ==
    ((n_electrons - spin_twice) \div 2) + spin_twice

distribute_electrons(n_electrons, multiplicity) ==
    IF MultiplicityCheckFails(multiplicity) THEN Raise("ValueError", MsgMultiplicity)
    ELSE IF ElectronCheckFails(n_electrons) THEN Raise("ValueError", MsgElectronCount)
    ELSE LET spin_twice == multiplicity - 1 IN
         IF ParityCheckFails(n_electrons, spin_twice) THEN Raise("ValueError", MsgParity)
         ELSE IF RangeCheckFails(n_electrons, spin_twice) THEN Raise("ValueError", MsgRange)
         ELSE LET n_alpha == SplitAlpha(n_electrons, spin_twice)
                  n_beta == n_electrons - n_alpha
              IN IF ~(n_alpha >= 0 /\ n_beta >= 0) THEN Raise("AssertionError", MsgAssert)
                 ELSE IF ~(n_alpha - n_beta = spin_twice)
                      THEN Raise("AssertionError", MsgAssert)
                 ELSE Return(<<n_alpha, n_beta>>)

---------------------------------------------------------------------------
(* molsturm/System.py: class System.  self is the record of the object's   *)
(* fields; coords holds, per coordinate, its number of components.         *)

MsgAtomsType == "atoms needs to be a list or tuple"
MsgCoordsNeeded == "coords needs to be specified if more than one atom is in the structure."
MsgCountsDisagree == "Number of atoms and number of coordinates does not agree."
MsgCoordsShape == "The coords list needs to have exactly 3 items per coordinate."
MsgUnpack == "not enough or too many values to unpack (expected 2)"
MsgAlphaBeta == "molsturm assumes that n_alpha >= n_beta at many places."
MsgElectronsType == "electrons needs to be a tuple, list or int"
MsgCharge == "Charge cannot be more positive than the total nuclear charge"
MsgMultiplicityChange == "Changing the charge in the way requested would require a change in multiplicity as well."

NoSystem == [atom_numbers |-> <<>>, coords |-> <<>>, n_alpha |-> 0, n_beta |-> 0]

System_n_atoms(self) == Len(self.atom_numbers)

System_multiplicity(self) == self.n_alpha - self.n_beta + 1

System_is_closed_shell(self) == self.n_alpha = self.n_beta

System_n_electrons(self) == self.n_alpha + self.n_beta

System_total_charge(self) == SeqSum(self.atom_numbers) - System_n_electrons(self)

System_charge(self) == System_total_charge(self)

\* [gint.element.find(at).atom_number for at in atoms]: the first failing
\* lookup propagates.
to_atom_numbers(atoms) ==
    LET failing == {i \in 1..Len(atoms) : ~find(atoms[i]).ok}
    IN IF failing # {}
       THEN find(atoms[CHOOSE i \in failing : \A j \in failing : i <= j])
       ELSE Return([i \in 1..Len(atoms) |-> find(atoms[i]).value.atom_number])

\* beta given the larger half, as the constructor's docstring has it
SplitBeta_Ceiling(electrons) == (electrons + 1) \div 2

\* self.n_beta = electrons // 2; self.n_alpha = electrons - self.n_beta
SplitBeta(electrons) == electrons \div 2

\* The electrons = (n_alpha, n_beta) branch of __init__
InitFromPair(self, electrons) ==
    IF Len(electrons) # 2 THEN [result |-> Raise("ValueError", MsgUnpack), self |-> self]
    ELSE LET assigned == [self EXCEPT !.n_alpha = electrons[1], !.n_beta = electrons[2]]
         IN IF assigned.n_alpha < assigned.n_beta
            THEN [result |-> Raise("ValueError", MsgAlphaBeta), self |-> assigned]
            ELSE [result |-> Return(<<>>), self |-> assigned]

\* The electrons = <int> branch of __init__, also taken with the nuclear charge
InitFromCount(self, electrons) ==
    LET n_beta == SplitBeta(electrons)
        assigned == [self EXCEPT !.n_beta = n_beta, !.n_alpha = electrons - n_beta]
    IN IF \/ (electrons % 2 = 0 /\ System_multiplicity(assigned) = 1)
          \/ (electrons % 2 = 1 /\ System_multiplicity(assigned) = 2)
       THEN [result |-> Return(<<>>), self |-> assigned]
       ELSE [result |-> Raise("AssertionError", MsgAssert), self |-> assigned]

System_init(atoms_arg, coords_arg, electrons) ==
    LET Fail(type, msg) == [result |-> Raise(type, msg), self |-> NoSystem] IN
    IF atoms_arg.kind \notin {"int", "str", "list"} THEN Fail("TypeError", MsgAtomsType)
    ELSE
    LET atoms == IF atoms_arg.kind \in {"int", "str"} THEN <<atoms_arg>> ELSE atoms_arg.val IN
    IF Len(atoms) > 0 /\ Len(coords_arg) = 0 /\ Len(atoms) # 1
    THEN Fail("ValueError", MsgCoordsNeeded)
    ELSE
    LET coords == IF Len(atoms) > 0 /\ Len(coords_arg) = 0 THEN <<3>> ELSE coords_arg IN
    IF Len(atoms) # Len(coords) THEN Fail("ValueError", MsgCountsDisagree)
    ELSE
    LET numbers == to_atom_numbers(atoms) IN
    IF ~numbers.ok THEN [result |-> numbers, self |-> NoSystem]
    ELSE
    LET self == [NoSystem EXCEPT !.atom_numbers = numbers.value, !.coords = coords] IN
    IF Len(coords) > 0 /\ coords[1] # 3 THEN Fail("ValueError", MsgCoordsShape)
    ELSE IF electrons.kind = "list" THEN InitFromPair(self, electrons.val)
    ELSE IF electrons.kind = "none" THEN InitFromCount(self, SeqSum(self.atom_numbers))
    ELSE IF electrons.kind # "int" THEN Fail("TypeError", MsgElectronsType)
    ELSE InitFromCount(self, electrons.val)

\* multiplicity = 1 if n_elec_count % 2 == 0 else 2
DefaultMultiplicity(n_elec_count) == IF n_elec_count % 2 = 0 THEN 1 ELSE 2

\* self.n_alpha, self.n_beta = distribute_electrons(n_elec_count, multiplicity):
\* nothing is assigned when the call raises.
AssignDistribution(self, n_elec_count, multiplicity) ==
    LET d == distribute_electrons(n_elec_count, multiplicity)
    IN IF d.ok
       THEN [result |-> Return(<<>>),
             self |-> [self EXCEPT !.n_alpha = d.value[1], !.n_beta = d.value[2]]]
       ELSE [result |-> d, self |-> self]

\* the default distribution assigned before allow_multiplity_change is looked at
OnRetainFailure_AssignsFirst(self, n_elec_count, allow_multiplity_change) ==
    LET r == AssignDistribution(self, n_elec_count, DefaultMultiplicity(n_elec_count))
    IN IF ~allow_multiplity_change
       THEN [result |-> Raise("ValueError", MsgMultiplicityChange), self |-> r.self]
       ELSE r

\* the error of distribute_electrons raised again instead of a new one
OnRetainFailure_Reraise(self, n_elec_count, allow_multiplity_change) ==
    IF ~allow_multiplity_change
    THEN [result |-> distribute_electrons(n_elec_count, System_multiplicity(self)),
          self |-> self]
    ELSE AssignDistribution(self, n_elec_count, DefaultMultiplicity(n_elec_count))

\* The except ValueError branch of adjust_electrons
OnRetainFailure(self, n_elec_count, allow_multiplity_change) ==
    IF ~allow_multiplity_change
    THEN [result |-> Raise("ValueError", MsgMultiplicityChange), self |-> self]
    ELSE AssignDistribution(self, n_elec_count, DefaultMultiplicity(n_elec_count))

\* The multiplicity is None branch of adjust_electrons
RetainMultiplicity(self, n_elec_count, allow_multiplity_change) ==
    LET first == AssignDistribution(self, n_elec_count, System_multiplicity(self))
    IN IF first.result.ok THEN first
       ELSE IF first.result.type = "ValueError"
            THEN OnRetainFailure(self, n_elec_count, allow_multiplity_change)
       ELSE first

\* the charge added to the nuclear charge
TargetElectrons_Sign(self, charge) == SeqSum(self.atom_numbers) + charge

\* n_elec_count of adjust_electrons, for a charge that is not None
TargetElectrons(self, charge) == SeqSum(self.atom_numbers) - charge

System_adjust_electrons(self, charge, multiplicity, allow_multiplity_change) ==
    LET n_elec_count == IF charge.kind = "none" THEN System_n_electrons(self)
                        ELSE TargetElectrons(self, charge.val)
    IN IF charge.kind # "none" /\ n_elec_count < 0
       THEN [result |-> Raise("ValueError", MsgCharge), self |-> self]
       ELSE IF multiplicity.kind = "none"
            THEN RetainMultiplicity(self, n_elec_count, allow_multiplity_change)
       ELSE AssignDistribution(self, n_elec_count, multiplicity.val)

---------------------------------------------------------------------------
(* The life of one System object: constructed once, then adjusted *)

\* hydrogen by number and by symbol, and a symbol the table does not hold
AtomIds == {PyInt(1), PyStr("H"), PyStr("Xx")}
AtomsArgs ==
    {PyList(s) : s \in SeqsUpTo(AtomIds, MaxAtoms)} \cup {PyInt(1), PyStr("H"), PyOther}
\* coordinate lists whose coordinates all have the same number of components
CoordsArgs ==
    {[i \in 1..n |-> w] : n \in 0..MaxAtoms, w \in {2, 3}}
PairCounts == (0 - MaxNegative) .. (MaxElectrons - MaxNegative)
ElectronsArgs ==
    {PyNone, PyOther, PyList(<<1>>), PyList(<<1, 1, 1>>)}
    \cup {PyInt(i) : i \in ElectronCounts}
    \cup {PyList(<<a, b>>) : a \in PairCounts, b \in PairCounts}
ChargeArgs == {PyNone} \cup {PyInt(c) : c \in (0 - MaxNegative) .. MaxCharge}
MultiplicityArgs == {PyNone} \cup {PyInt(m) : m \in 0 .. MaxMultiplicity}

Init ==
    /\ pc = "new"
    /\ system = NoSystem
    /\ last = [op |-> "none"]
    /\ dist = [called |-> FALSE]
    /\ look = [op |-> "none"]

Construct ==
    /\ pc = "new"
    /\ \E atoms \in AtomsArgs, coords \in CoordsArgs, electrons \in ElectronsArgs :
          LET r == System_init(atoms, coords, electrons)
          IN /\ pc' = IF r.result.ok THEN "live" ELSE "failed"
             /\ system' = IF r.result.ok THEN r.self ELSE NoSystem
             /\ last' = [op |-> "init", electrons |-> electrons,
                         result |-> r.result]
    /\ UNCHANGED <<dist, look>>

Adjust ==
    /\ pc = "live"
    /\ \E charge \in ChargeArgs, multiplicity \in MultiplicityArgs,
          allow_multiplity_change \in BOOLEAN :
          LET r == System_adjust_electrons(system, charge, multiplicity,
                                           allow_multiplity_change)
          IN /\ system' = r.self
             /\ last' = [op |-> "adjust", charge |-> charge,
                         multiplicity |-> multiplicity,
                         allow |-> allow_multiplity_change,
                         pre |-> system, result |-> r.result]
    /\ UNCHANGED <<pc, dist, look>>

Next == Construct \/ Adjust

Spec == Init /\ [][Next]_vars

---------------------------------------------------------------------------
(* A call to distribute_electrons *)

InitDistribute ==
    /\ pc = "new"
    /\ system = NoSystem
    /\ last = [op |-> "none"]
    /\ look = [op |-> "none"]
    /\ dist \in [n_electrons : ElectronCounts, multiplicity : Multiplicities,
                 called : {FALSE}, result : {NotCalled}]

CallDistribute ==
    /\ ~dist.called
    /\ dist' = [dist EXCEPT !.called = TRUE,
                            !.result = distribute_electrons(dist.n_electrons,
                                                            dist.multiplicity)]
    /\ UNCHANGED <<pc, system, last, look>>

NextDistribute == CallDistribute

SpecDistribute == InitDistribute /\ [][NextDistribute]_vars

---------------------------------------------------------------------------
(* A call into the element table *)

Symbols == {elems[i].symbol : i \in 1..Len(elems)}
LookupArgs ==
    {PyInt(i) : i \in 0 .. (Len(elems) + LookupSlack)}
    \cup {PyStr(sym) : sym \in Symbols \cup {"Xx", "h", "HE", ""}}

InitElement ==
    /\ pc = "new"
    /\ system = NoSystem
    /\ last = [op |-> "none"]
    /\ dist = [called |-> FALSE]
    /\ look \in [op : {"pending"}, atom : LookupArgs, result : {NotCalled}]

CallFind ==
    /\ look.op = "pending"
    /\ look' = [look EXCEPT !.op = "find", !.result = find(look.atom)]
    /\ UNCHANGED <<pc, system, last, dist>>

CallByAtomicNumber ==
    /\ look.op = "pending"
    /\ look' = [look EXCEPT !.op = "by_atomic_number",
                            !.result = by_atomic_number(look.atom)]
    /\ UNCHANGED <<pc, system, last, dist>>

NextElement == CallFind \/ CallByAtomicNumber

SpecElement == InitElement /\ [][NextElement]_vars

---------------------------------------------------------------------------
(* Properties of distribute_electrons, under SpecDistribute *)

\* the integer pairs among which the split is unique
SplitRange ==
    (0 - (MaxElectrons + MaxMultiplicity)) .. (MaxElectrons + MaxMultiplicity)

ValidDistribution(n_electrons, multiplicity) ==
    /\ multiplicity >= 1
    /\ n_electrons >= 0
    /\ (multiplicity - 1) % 2 = n_electrons % 2
    /\ multiplicity - 1 <= n_electrons

\* C2: for every valid (n_electrons, multiplicity), with matching parity and
\* multiplicity - 1 <= n_electrons, distribute_electrons returns
\* (n_alpha, n_beta) with n_alpha >= n_beta >= 0, n_alpha + n_beta =
\* n_electrons and n_alpha - n_beta = multiplicity - 1, and no other integer
\* pair has that sum and that difference.
C2_DistributeSplit ==
    (dist.called /\ ValidDistribution(dist.n_electrons, dist.multiplicity)) =>
        /\ dist.result.ok
        /\ LET n_alpha == dist.result.value[1]
               n_beta == dist.result.value[2]
           IN /\ n_alpha >= n_beta
              /\ n_beta >= 0
              /\ n_alpha + n_beta = dist.n_electrons
              /\ n_alpha - n_beta = dist.multiplicity - 1
              /\ \A x \in SplitRange, y \in SplitRange :
                    (x + y = dist.n_electrons /\ x - y = dist.multiplicity - 1)
                        => (x = n_alpha /\ y = n_beta)

\* distribute_electrons(5, 4) has returned (4, 1)
C2_Witness ==
    /\ dist.called
    /\ dist.n_electrons = 5
    /\ dist.multiplicity = 4
    /\ dist.result.ok
    /\ dist.result.value = <<4, 1>>

\* C3: distribute_electrons raises a ValueError, and returns no pair, for
\* every input with multiplicity <= 0, or n_electrons < 0, or
\* multiplicity - 1 and n_electrons of different parity, or
\* multiplicity - 1 > n_electrons; it returns for every other input; and
\* its assertions never fail.
C3_DistributeFailsExactly ==
    dist.called =>
        /\ dist.result.ok <=> ValidDistribution(dist.n_electrons, dist.multiplicity)
        /\ ~dist.result.ok => dist.result.type = "ValueError"
        /\ dist.result.type # "AssertionError"

\* distribute_electrons(2, 5) has raised: 2 electrons cannot give multiplicity 5
C3_Witness ==
    /\ dist.called
    /\ dist.n_electrons = 2
    /\ dist.multiplicity = 5
    /\ ~dist.result.ok
    /\ dist.result.type = "ValueError"
    /\ dist.result.msg = MsgRange

---------------------------------------------------------------------------
(* Properties of the element table, under SpecElement *)

Matching(atom) ==
    {i \in 1..Len(elems) : \/ PyEq(PyInt(elems[i].atom_number), atom)
                           \/ PyEq(PyStr(elems[i].symbol), atom)}

\* C9: for every element of the table, find(symbol), find(atomic number) and
\* by_atomic_number(atomic number) return that same Element; for every
\* identifier that matches nothing, find and by_atomic_number both fail with
\* the same KeyError and return no element.
C9_LookupAgrees ==
    /\ (look.op = "find" /\ Matching(look.atom) # {}) =>
          /\ look.result.ok
          /\ \A i \in Matching(look.atom) :
                /\ look.result.value = elems[i]
                /\ find(PyStr(elems[i].symbol)) = look.result
                /\ find(PyInt(elems[i].atom_number)) = look.result
                /\ by_atomic_number(PyInt(elems[i].atom_number)) = look.result
    /\ (look.op = "find" /\ Matching(look.atom) = {}) =>
          /\ ~look.result.ok
          /\ look.result.type = "KeyError"
    /\ (look.op = "by_atomic_number" /\ look.atom.kind = "int"
            /\ Matching(look.atom) # {}) =>
          /\ look.result.ok
          /\ look.result.value.atom_number = look.atom.val
    /\ (look.op = "by_atomic_number" /\ look.atom.kind = "int"
            /\ Matching(look.atom) = {}) =>
          /\ ~look.result.ok
          /\ look.result.type = "KeyError"
          /\ look.result = find(look.atom)

---------------------------------------------------------------------------
(* Properties of System, under Spec *)

Adjusted == last.op = "adjust"

\* n_elec_count of the last adjust_electrons call
LastTarget ==
    IF last.charge.kind = "none" THEN System_n_electrons(last.pre)
    ELSE SeqSum(last.pre.atom_numbers) - last.charge.val

\* the last adjust_electrons call got past its check of the charge
PassedChargeCheck == last.charge.kind = "none" \/ LastTarget >= 0

\* the attempt of the last call with the multiplicity the System had
RetainAttempt == distribute_electrons(LastTarget, System_multiplicity(last.pre))

\* C1: in every state reached by a successful construction followed by any
\* sequence of adjust_electrons calls, n_alpha >= n_beta >= 0 and there are
\* as many atoms as coordinates.
C1_SystemInvariant ==
    pc = "live" =>
        /\ system.n_alpha >= system.n_beta
        /\ system.n_beta >= 0
        /\ Len(system.atom_numbers) = Len(system.coords)

\* C4: when adjust_electrons fails, on any path, n_alpha, n_beta, the atoms
\* and the coordinates are what they were before the call; when it succeeds
\* the atoms and coordinates are untouched and n_alpha and n_beta are
\* together the one split of the new electron count and multiplicity.
C4_FailedAdjustKeepsState ==
    Adjusted =>
        /\ ~last.result.ok => system = last.pre
        /\ last.result.ok =>
              /\ system.atom_numbers = last.pre.atom_numbers
              /\ system.coords = last.pre.coords
              /\ System_n_electrons(system) = LastTarget
              /\ distribute_electrons(LastTarget, System_multiplicity(system))
                    = Return(<<system.n_alpha, system.n_beta>>)

\* adjust_electrons(charge=1, allow_multiplity_change=False) has failed on a
\* closed-shell System of two hydrogen atoms
C4_Witness ==
    /\ Adjusted
    /\ ~last.result.ok
    /\ last.result.msg = MsgMultiplicityChange
    /\ last.charge = PyInt(1)
    /\ system.atom_numbers = <<1, 1>>
    /\ system.n_alpha = 1
    /\ system.n_beta = 1

\* C5: after a successful adjust_electrons, total_charge is the charge given
\* (n_electrons is unchanged when none was given) and the multiplicity is
\* the multiplicity given.  With a charge above the nuclear charge the call
\* fails, and with a multiplicity given the call fails exactly when
\* distribute_electrons fails on the target electron count and that
\* multiplicity, whatever allow_multiplity_change is.
C5_AdjustAchieves ==
    Adjusted =>
        /\ (last.result.ok /\ last.charge.kind = "int") =>
              System_total_charge(system) = last.charge.val
        /\ (last.result.ok /\ last.charge.kind = "none") =>
              System_n_electrons(system) = System_n_electrons(last.pre)
        /\ (last.result.ok /\ last.multiplicity.kind = "int") =>
              System_multiplicity(system) = last.multiplicity.val
        /\ (last.charge.kind = "int"
                /\ SeqSum(last.pre.atom_numbers) - last.charge.val < 0) =>
              ~last.result.ok
        /\ last.multiplicity.kind = "int" =>
              (last.result.ok <=>
                  distribute_electrons(LastTarget, last.multiplicity.val).ok)

\* adjust_electrons(charge=1, multiplicity=3) has succeeded on three hydrogen
\* atoms: two electrons, both alpha
C5_Witness ==
    /\ Adjusted
    /\ last.result.ok
    /\ last.charge = PyInt(1)
    /\ last.multiplicity = PyInt(3)
    /\ system.atom_numbers = <<1, 1, 1>>
    /\ system.n_alpha = 2
    /\ system.n_beta = 0

\* C6: for an adjust_electrons call without multiplicity and with
\* allow_multiplity_change true, that got past the check of the charge: if
\* distribute_electrons succeeds on the target with the current multiplicity
\* the multiplicity after the call is the one before it; otherwise it is 1
\* for an even target and 2 for an odd one.
C6_RetainOrDefault ==
    (Adjusted /\ last.multiplicity.kind = "none" /\ last.allow /\ PassedChargeCheck) =>
        IF RetainAttempt.ok
        THEN System_multiplicity(system) = System_multiplicity(last.pre)
        ELSE System_multiplicity(system) = (IF LastTarget % 2 = 0 THEN 1 ELSE 2)

\* C7: for an adjust_electrons call without multiplicity and with
\* allow_multiplity_change false, that got past the check of the charge:
\* when distribute_electrons fails on the target with the current
\* multiplicity, the call fails with the error saying that the multiplicity
\* would have to change, which is none of the errors of
\* distribute_electrons and not the error of the charge check, and nothing
\* is redistributed.
C7_IncompatibleChange ==
    (Adjusted /\ last.multiplicity.kind = "none" /\ ~last.allow /\ PassedChargeCheck
        /\ ~RetainAttempt.ok) =>
        /\ ~last.result.ok
        /\ last.result.type = "ValueError"
        /\ last.result.msg = MsgMultiplicityChange
        /\ last.result.msg \notin
              {MsgMultiplicity, MsgElectronCount, MsgParity, MsgRange, MsgCharge}
        /\ last.result # RetainAttempt
        /\ system = last.pre

\* adjust_electrons(charge=-1, allow_multiplity_change=False) has failed on a
\* hydrogen atom, a doublet
C7_Witness ==
    /\ Adjusted
    /\ last.multiplicity.kind = "none"
    /\ ~last.allow
    /\ last.charge = PyInt(0 - 1)
    /\ last.pre.atom_numbers = <<1>>
    /\ last.pre.n_alpha = 1
    /\ last.pre.n_beta = 0
    /\ ~last.result.ok

C10_AdjustNoOp ==
    /\ (Adjusted /\ last.charge.kind = "none" /\ last.multiplicity.kind = "none") =>
          /\ last.result.ok
          /\ system.n_alpha = last.pre.n_alpha
          /\ system.n_beta = last.pre.n_beta
    /\ (Adjusted /\ last.charge.kind = "int" /\ last.multiplicity.kind = "none"
            /\ last.result.ok) =>
          LET again == System_adjust_electrons(system, last.charge, PyNone, last.allow)
          IN again.result.ok /\ again.self = system

===========================================================================
